---- MODULE Spec2Model ----
(***************************************************************************)
(* Host identity resolution of the vSphere provider: the hostsystem        *)
(* helper (FromID, FromHostname, FromHostnameOrID, CheckIfHostnameOrID,    *)
(* SystemOrDefault) and the resources / data sources that call it.         *)
(*                                                                         *)
(* The vSphere inventory is a sequence of datacenters, each a sequence of  *)
(* hosts (mo.HostSystem: Self, Name).  Every API call the helper makes may *)
(* fail; a failure is a nondeterministic input of the step that makes the  *)
(* call.  Strings that are split or joined on ":" (resource IDs) are       *)
(* sequences of tokens in which ":" is a token of its own.                 *)
(***************************************************************************)
EXTENDS Integers, Sequences, FiniteSets, TLC

VARIABLES
    inv,        \* the inventory: Seq(datacenter), datacenter = Seq([Self, Name])
    op,         \* the provider entry point being executed
    pc,         \* position inside it
    cfg,        \* the Terraform configuration handed to a data source
    d,          \* schema.ResourceData: id, host_system_id, hostname, adapter_id
    tfID,       \* the identifier under lookup (FromID's id, FromHostname's hostname)
    tfIDName,   \* FromHostnameOrID's local tfIDName
    dcI,        \* FromHostname: index of the datacenter being searched
    hostJ,      \* FromHostname: index of the host being compared
    counter,    \* FromHostname: number of hosts matched so far
    host,       \* FromHostname: the matched host
    idRet,      \* what FromID returned
    fhRet,      \* what FromHostname returned
    ret,        \* what the helper returned to its caller / the entry point's result
    lookups,    \* the lookups started by the entry point, in order
    failed,     \* the API call that failed in this entry point, or "none"
    imp,        \* what the last successful iSCSI import resolved and stored
    sd,         \* SystemOrDefault's arguments: ApiType, name, datacenter
    mm,         \* maintenance mode: the hosts' runtime state and the call in progress
    nas,        \* NAS datastore resource: the datastore, the resource data, the call
    dns         \* vCenter DNS resource: the appliance, the resource data, the call

\* The variables of host resolution
resolveVars == <<inv, op, pc, cfg, d, tfID, tfIDName, dcI, hostJ, counter, host,
                 idRet, fhRet, ret, lookups, failed, imp, sd>>

vars == <<inv, op, pc, cfg, d, tfID, tfIDName, dcI, hostJ, counter, host,
          idRet, fhRet, ret, lookups, failed, imp, sd, mm, nas, dns>>

-----------------------------------------------------------------------------
(* Bounds of the model *)

MaxDC == 2

MaxHosts == 3

\* Host names in use; "host-2" is also the reference value of the second host.
Names == {"esx-a", "host-2"}

\* Identifiers a user may supply: a reference only, a reference that is also
\* a name, a name only, and the empty string.
Idents == {"", "host-1", "host-2", "esx-a"}

\* Managed object reference values, handed out in inventory order.
RefTable == <<"host-1", "host-2", "host-3", "host-4", "host-5", "host-6",
              "host-7", "host-8", "host-9", "host-10", "host-11", "host-12">>

Adapter == "vmhba64"

-----------------------------------------------------------------------------
(* Values *)

Nil == "nil"

Null == "<null>"

NoErr == "<nil>"

ErrHostnameNotFound == "could not find host with given hostname"

ErrHostnameOrIDNotFound == "could not find host based off of id or hostname"

ErrManagedObjectNotFound == "ManagedObjectNotFound"

ErrAPI == "api failure"

ErrAmbiguous == "more than one host with hostname was found"

ErrObjectReference == "error trying to retrieve host object reference"

ErrNoValidID == "no valid tf id attribute passed"

ErrUnsupportedApiType == "unsupported ApiType"

\* HostReturn{}
ZeroHostReturn == [IDName |-> "", Value |-> ""]

NoRet == [host |-> Nil, hr |-> ZeroHostReturn, err |-> NoErr]

NoLookup == [host |-> Nil, err |-> NoErr]

NoData == [id |-> <<>>, host_system_id |-> "", hostname |-> "", adapter_id |-> ""]

NoCfg == [host_system_id |-> Null, hostname |-> Null]

NoImport == [host |-> Nil, d |-> NoData]

-----------------------------------------------------------------------------
(* The inventory *)

SeqUpTo(S, n) == UNION {[1..k -> S] : k \in 0..n}

RECURSIVE TotalLen(_)
TotalLen(ss) == IF ss = <<>> THEN 0 ELSE Len(Head(ss)) + TotalLen(Tail(ss))

Offset(ss, i) == TotalLen(SubSeq(ss, 1, i - 1))

\* Datacenters with their hosts' names; at least one datacenter.
Layouts ==
    {ss \in UNION {[1..k -> SeqUpTo(Names, MaxHosts)] : k \in 1..MaxDC} :
        TotalLen(ss) <= MaxHosts}

Inventory(ss) ==
    [i \in 1..Len(ss) |->
        [j \in 1..Len(ss[i]) |->
            [Self |-> RefTable[Offset(ss, i) + j], Name |-> ss[i][j]]]]

AllHosts == UNION {{inv[i][j] : j \in 1..Len(inv[i])} : i \in 1..Len(inv)}

HostsNamed(name) == {h \in AllHosts : h.Name = name}

\* object.HostSystem.Name() of the host object with reference ref
NameOf(ref) == (CHOOSE h \in AllHosts : h.Self = ref).Name

-----------------------------------------------------------------------------
(* Strings with ":" *)

\* strings.Split(s, ":") on a token sequence: the segments between ":" tokens
RECURSIVE SplitColon(_, _)
SplitColon(toks, cur) ==
    IF toks = <<>> THEN <<cur>>
    ELSE IF Head(toks) = ":" THEN <<cur>> \o SplitColon(Tail(toks), "")
    ELSE SplitColon(Tail(toks), Head(toks))

Split(toks) == SplitColon(toks, "")

Tok(s) == IF s = "" THEN <<>> ELSE <<s>>

\* fmt.Sprintf("%s:%s", a, b)
SprintfColon(a, b) == Tok(a) \o <<":">> \o Tok(b)

\* Import IDs: one segment, two segments (also with an empty first one), three
ImportIDs ==
    {<<"esx-a">>, <<":", Adapter>>, <<"host-1", ":", Adapter, ":", Adapter>>}
    \cup {<<x, ":", Adapter>> : x \in Idents \ {""}}

-----------------------------------------------------------------------------
(* Entry and return *)

Idle == pc \in {"idle", "done"}

ResetLocals ==
    /\ tfIDName' = ""
    /\ dcI' = 0
    /\ hostJ' = 0
    /\ counter' = 0
    /\ host' = Nil
    /\ idRet' = NoLookup
    /\ fhRet' = NoLookup
    /\ lookups' = <<>>
    /\ failed' = "none"
    /\ sd' = [apiType |-> "", name |-> "", dc |-> 0]

\* The entry points that resolve through CheckIfHostnameOrID
CheckCallers == {"CheckIfHostnameOrID", "IscsiImport"}

\* Where CheckIfHostnameOrID returns to
CheckReturnPC == IF op = "IscsiImport" THEN "IscsiImport" ELSE "done"

\* Where FromHostnameOrID returns to
FHOIReturnPC ==
    CASE op = "DataSourceRead" -> "DataSourceRead"
      [] op = "IscsiRead" -> "IscsiRead"
      [] OTHER -> "done"

\* Where FromID and FromHostname return to
LookupReturnPC(fn) ==
    IF op \in CheckCallers
    THEN (IF fn = "FromID" THEN "CheckID" ELSE "CheckHostname")
    ELSE "FromHostnameOrIDReturn"

-----------------------------------------------------------------------------
(* FromID *)

\* finder.ObjectReference for a HostSystem reference: the host, a managed
\* object not found fault when the inventory has no such reference, or a
\* failure of the call
FromIDResult(id, fail) ==
    IF fail THEN [host |-> Nil, err |-> ErrAPI]
    ELSE IF \E h \in AllHosts : h.Self = id THEN [host |-> id, err |-> NoErr]
    ELSE [host |-> Nil, err |-> ErrManagedObjectNotFound]

FromID ==
    /\ pc = "FromID"
    /\ \E fail \in BOOLEAN :
        /\ idRet' = FromIDResult(tfID, fail)
        /\ failed' = IF fail THEN "FromID" ELSE failed
    /\ lookups' = Append(lookups, [fn |-> "FromID", arg |-> tfID])
    /\ pc' = LookupReturnPC("FromID")
    /\ UNCHANGED <<inv, op, cfg, d, tfID, tfIDName, dcI, hostJ, counter, host,
                   fhRet, ret, imp, sd>>
    /\ UNCHANGED <<mm, nas, dns>>

-----------------------------------------------------------------------------
(* FromHostname *)

\* for _, dc := range dcs
MoreDatacenters_FirstOnly(i) == i <= 1 /\ i <= Len(inv)

MoreDatacenters(i) == i <= Len(inv)

\* counter++; if counter > 1 { return error } else fetch the object reference
MatchBranch_NoCount(n) == "fetch"

MatchBranch(n) == IF n > 1 THEN "ambiguous" ELSE "fetch"

\* finder.DatacenterList(ctx, "*")
DatacenterList ==
    /\ pc = "DatacenterList"
    /\ lookups' = Append(lookups, [fn |-> "FromHostname", arg |-> tfID])
    /\ \E fail \in BOOLEAN :
        IF fail
        THEN /\ fhRet' = [host |-> Nil, err |-> ErrAPI]
             /\ failed' = "DatacenterList"
             /\ pc' = LookupReturnPC("FromHostname")
             /\ UNCHANGED <<dcI, counter, host>>
        ELSE /\ counter' = 0
             /\ host' = Nil
             /\ dcI' = 1
             /\ pc' = IF MoreDatacenters(1) THEN "CreateContainerView"
                      ELSE "FromHostnameEnd"
             /\ UNCHANGED <<fhRet, failed>>
    /\ UNCHANGED <<inv, op, cfg, d, tfID, tfIDName, hostJ, idRet, ret, imp, sd>>
    /\ UNCHANGED <<mm, nas, dns>>

\* viewMgr.CreateContainerView: on an error the process exits (os.Exit(1))
CreateContainerView ==
    /\ pc = "CreateContainerView"
    /\ \E fail \in BOOLEAN :
        IF fail
        THEN /\ failed' = "CreateContainerView"
             /\ pc' = "exit"
        ELSE /\ pc' = "RetrieveWithFilter"
             /\ UNCHANGED failed
    /\ UNCHANGED <<inv, op, cfg, d, tfID, tfIDName, dcI, hostJ, counter, host,
                   idRet, fhRet, ret, lookups, imp, sd>>
    /\ UNCHANGED <<mm, nas, dns>>

\* After host hostJ of datacenter dcI: the next host, the next datacenter, or
\* the end of the search
NextPosition ==
    IF hostJ' <= Len(inv[dcI]) THEN /\ pc' = "CompareHost"
                                    /\ dcI' = dcI
    ELSE /\ dcI' = dcI + 1
         /\ pc' = IF MoreDatacenters(dcI + 1) THEN "CreateContainerView"
                  ELSE "FromHostnameEnd"

\* dcView.RetrieveWithFilter: on an error the process exits (os.Exit(1))
RetrieveWithFilter ==
    /\ pc = "RetrieveWithFilter"
    /\ \E fail \in BOOLEAN :
        IF fail
        THEN /\ failed' = "RetrieveWithFilter"
             /\ pc' = "exit"
             /\ UNCHANGED <<dcI, hostJ>>
        ELSE /\ hostJ' = 1
             /\ NextPosition
             /\ UNCHANGED failed
    /\ UNCHANGED <<inv, op, cfg, d, tfID, tfIDName, counter, host,
                   idRet, fhRet, ret, lookups, imp, sd>>
    /\ UNCHANGED <<mm, nas, dns>>

\* One iteration of "for _, h := range moHosts"
CompareHost ==
    /\ pc = "CompareHost"
    /\ LET h == inv[dcI][hostJ] IN
        IF h.Name = tfID
        THEN /\ counter' = counter + 1
             /\ IF MatchBranch(counter + 1) = "ambiguous"
                THEN /\ fhRet' = [host |-> Nil, err |-> ErrAmbiguous]
                     /\ pc' = LookupReturnPC("FromHostname")
                     /\ UNCHANGED <<dcI, hostJ, host, failed>>
                ELSE \E fail \in BOOLEAN :
                        IF fail
                        THEN /\ fhRet' = [host |-> Nil, err |-> ErrObjectReference]
                             /\ failed' = "ObjectReference"
                             /\ pc' = LookupReturnPC("FromHostname")
                             /\ UNCHANGED <<dcI, hostJ, host>>
                        ELSE /\ host' = h.Self
                             /\ hostJ' = hostJ + 1
                             /\ NextPosition
                             /\ UNCHANGED <<fhRet, failed>>
        ELSE /\ hostJ' = hostJ + 1
             /\ NextPosition
             /\ UNCHANGED <<counter, host, fhRet, failed>>
    /\ UNCHANGED <<inv, op, cfg, d, tfID, tfIDName, idRet, ret, lookups, imp, sd>>
    /\ UNCHANGED <<mm, nas, dns>>

\* if host != nil { return host, nil }; return nil, ErrHostnameNotFound
FromHostnameEnd ==
    /\ pc = "FromHostnameEnd"
    /\ fhRet' = IF host # Nil THEN [host |-> host, err |-> NoErr]
                ELSE [host |-> Nil, err |-> ErrHostnameNotFound]
    /\ pc' = LookupReturnPC("FromHostname")
    /\ UNCHANGED <<inv, op, cfg, d, tfID, tfIDName, dcI, hostJ, counter, host,
                   idRet, ret, lookups, failed, imp, sd>>
    /\ UNCHANGED <<mm, nas, dns>>

-----------------------------------------------------------------------------
(* CheckIfHostnameOrID *)

\* host, err := FromID(client, tfID): which way the function goes on
IDBranch_AnyError(err) == IF err = NoErr THEN "found" ELSE "hostname"

IDBranch(err) ==
    IF err = NoErr THEN "found"
    ELSE IF err # ErrManagedObjectNotFound THEN "error"
    ELSE "hostname"

\* host, err = FromHostname(client, tfID): which way the function goes on
HostnameBranch_AllNotFound(err) == IF err = NoErr THEN "found" ELSE "notfound"

HostnameBranch(err) ==
    IF err = NoErr THEN "found"
    ELSE IF err # ErrHostnameNotFound THEN "error"
    ELSE "notfound"

\* The HostReturn of a successful CheckIfHostnameOrID
CheckHostReturn_RefValue(flavor, h) == [IDName |-> flavor, Value |-> h]

CheckHostReturn(flavor, h) ==
    IF flavor = "host_system_id"
    THEN [IDName |-> "host_system_id", Value |-> h]
    ELSE [IDName |-> "hostname", Value |-> NameOf(h)]

CallCheckIfHostnameOrID ==
    /\ Idle
    /\ \E id \in Idents : tfID' = id
    /\ op' = "CheckIfHostnameOrID"
    /\ pc' = "FromID"
    /\ cfg' = NoCfg
    /\ d' = NoData
    /\ imp' = NoImport
    /\ ret' = NoRet
    /\ ResetLocals
    /\ UNCHANGED inv
    /\ UNCHANGED <<mm, nas, dns>>

\* Lines 181-186 and 198: after the ID lookup
CheckID ==
    /\ pc = "CheckID"
    /\ LET b == IDBranch(idRet.err) IN
        /\ ret' = CASE b = "found" ->
                        [host |-> idRet.host,
                         hr |-> CheckHostReturn("host_system_id", idRet.host),
                         err |-> NoErr]
                   [] b = "error" ->
                        [host |-> Nil, hr |-> ZeroHostReturn, err |-> idRet.err]
                   [] OTHER -> ret
        /\ pc' = IF b = "hostname" THEN "DatacenterList" ELSE CheckReturnPC
    /\ UNCHANGED <<inv, op, cfg, d, tfID, tfIDName, dcI, hostJ, counter, host,
                   idRet, fhRet, lookups, failed, imp, sd>>
    /\ UNCHANGED <<mm, nas, dns>>

\* Lines 187-195: after the hostname search
CheckHostname ==
    /\ pc = "CheckHostname"
    /\ LET b == HostnameBranch(fhRet.err) IN
        ret' = CASE b = "found" ->
                      [host |-> fhRet.host,
                       hr |-> CheckHostReturn("hostname", fhRet.host),
                       err |-> NoErr]
                 [] b = "error" ->
                      [host |-> Nil, hr |-> ZeroHostReturn, err |-> fhRet.err]
                 [] OTHER ->
                      [host |-> Nil, hr |-> ZeroHostReturn,
                       err |-> ErrHostnameOrIDNotFound]
    /\ pc' = CheckReturnPC
    /\ UNCHANGED <<inv, op, cfg, d, tfID, tfIDName, dcI, hostJ, counter, host,
                   idRet, fhRet, lookups, failed, imp, sd>>
    /\ UNCHANGED <<mm, nas, dns>>

-----------------------------------------------------------------------------
(* FromHostnameOrID *)

\* d.Get(k) != nil && d.Get(k) != ""
IsSet(data, k) == data[k] # ""

\* The attribute FromHostnameOrID reads
Flavor_HostnameFirst(data) ==
    IF IsSet(data, "hostname") THEN "hostname"
    ELSE IF IsSet(data, "host_system_id") THEN "host_system_id"
    ELSE "none"

Flavor(data) ==
    IF IsSet(data, "host_system_id") THEN "host_system_id"
    ELSE IF IsSet(data, "hostname") THEN "hostname"
    ELSE "none"

CallFromHostnameOrID ==
    /\ Idle
    /\ \E hs \in Idents, hn \in Idents :
        d' = [NoData EXCEPT !.host_system_id = hs, !.hostname = hn]
    /\ op' = "FromHostnameOrID"
    /\ pc' = "FromHostnameOrID"
    /\ cfg' = NoCfg
    /\ imp' = NoImport
    /\ ret' = NoRet
    /\ tfID' = ""
    /\ ResetLocals
    /\ UNCHANGED inv
    /\ UNCHANGED <<mm, nas, dns>>

\* Lines 157-167: choose the lookup from the resource data
FromHostnameOrID ==
    /\ pc = "FromHostnameOrID"
    /\ LET f == Flavor(d) IN
        IF f = "none"
        THEN /\ ret' = [host |-> Nil, hr |-> ZeroHostReturn, err |-> ErrNoValidID]
             /\ pc' = FHOIReturnPC
             /\ UNCHANGED <<tfID, tfIDName>>
        ELSE /\ tfIDName' = f
             /\ tfID' = d[f]
             /\ pc' = IF f = "host_system_id" THEN "FromID" ELSE "DatacenterList"
             /\ ret' = ret
    /\ UNCHANGED <<inv, op, cfg, d, dcI, hostJ, counter, host,
                   idRet, fhRet, lookups, failed, imp, sd>>
    /\ UNCHANGED <<mm, nas, dns>>

\* Line 169: return host, HostReturn{IDName: tfIDName, Value: tfVal}, err
FromHostnameOrIDReturn ==
    /\ pc = "FromHostnameOrIDReturn"
    /\ LET r == IF tfIDName = "host_system_id" THEN idRet ELSE fhRet IN
        ret' = [host |-> r.host,
                hr |-> [IDName |-> tfIDName, Value |-> tfID],
                err |-> r.err]
    /\ pc' = FHOIReturnPC
    /\ UNCHANGED <<inv, op, cfg, d, tfID, tfIDName, dcI, hostJ, counter, host,
                   idRet, fhRet, lookups, failed, imp, sd>>
    /\ UNCHANGED <<mm, nas, dns>>

-----------------------------------------------------------------------------
(* Host configuration data source (vsphere_host_config_date_time) *)

ErrValidation == "one of host_system_id,hostname must be specified, only one can be"

ErrRetrievingHost == "error retrieving host"

CfgValues == Idents \cup {Null}

\* Schema: host_system_id is ExactlyOneOf {"hostname"}: exactly one of the two
\* attributes is specified in a configuration that passes validation
ExactlyOneOf_AtLeastOne(c) ==
    c.host_system_id # Null \/ c.hostname # Null

ExactlyOneOf(c) ==
    Cardinality({k \in {"host_system_id", "hostname"} : c[k] # Null}) = 1

\* d.Get of an attribute the configuration leaves out is the zero value
DataOf(c) ==
    [NoData EXCEPT
        !.host_system_id = IF c.host_system_id = Null THEN "" ELSE c.host_system_id,
        !.hostname = IF c.hostname = Null THEN "" ELSE c.hostname]

\* d.SetId(hr.Value); d.Set(hr.IDName, hr.Value)
DataSourceSet_HostRef(data, h, hr) ==
    [data EXCEPT !.id = Tok(h), ![hr.IDName] = hr.Value]

DataSourceSet(data, h, hr) ==
    [data EXCEPT !.id = Tok(hr.Value), ![hr.IDName] = hr.Value]

\* The configuration is validated against the schema, then Read is called
CallDataSourceRead ==
    /\ Idle
    /\ op' = "DataSourceRead"
    /\ \E c \in [host_system_id : CfgValues, hostname : CfgValues] :
        /\ cfg' = c
        /\ IF ExactlyOneOf(c)
           THEN /\ d' = DataOf(c)
                /\ pc' = "FromHostnameOrID"
                /\ ret' = NoRet
           ELSE /\ d' = NoData
                /\ pc' = "done"
                /\ ret' = [NoRet EXCEPT !.err = ErrValidation]
    /\ imp' = NoImport
    /\ tfID' = ""
    /\ ResetLocals
    /\ UNCHANGED inv
    /\ UNCHANGED <<mm, nas, dns>>

\* dataSourceVSphereHostConfigDateTimeRead after FromHostnameOrID returned
DataSourceRead ==
    /\ pc = "DataSourceRead"
    /\ pc' = "done"
    /\ IF ret.err # NoErr
       THEN /\ ret' = [ret EXCEPT !.err = ErrRetrievingHost]
            /\ UNCHANGED <<d, failed>>
       ELSE \E fail \in BOOLEAN :
            IF fail
            THEN /\ ret' = [ret EXCEPT !.err = ErrAPI]
                 /\ failed' = "DateTimeSystem"
                 /\ UNCHANGED d
            ELSE /\ d' = DataSourceSet(d, ret.host, ret.hr)
                 /\ UNCHANGED <<ret, failed>>
    /\ UNCHANGED <<inv, op, cfg, tfID, tfIDName, dcI, hostJ, counter, host,
                   idRet, fhRet, lookups, imp, sd>>
    /\ UNCHANGED <<mm, nas, dns>>

-----------------------------------------------------------------------------
(* iSCSI software adapter resource *)

ErrImportFormat == "invalid import format"

\* d.SetId(fmt.Sprintf("%s:%s", hr.Value, adapter.Device)); d.Set(hr.IDName, hr.Value)
ImportSet_AsHostname(data, hr, dev) ==
    [data EXCEPT !.id = SprintfColon(hr.Value, dev), !.hostname = hr.Value]

ImportSet(data, hr, dev) ==
    [data EXCEPT !.id = SprintfColon(hr.Value, dev), ![hr.IDName] = hr.Value]

\* resourceVSphereIscsiSoftwareAdapterImport up to the call of CheckIfHostnameOrID
CallIscsiImport ==
    /\ Idle
    /\ op' = "IscsiImport"
    /\ \E id \in ImportIDs :
        LET idSplit == Split(id) IN
        /\ d' = [NoData EXCEPT !.id = id]
        /\ IF Len(idSplit) # 2
           THEN /\ pc' = "done"
                /\ ret' = [NoRet EXCEPT !.err = ErrImportFormat]
                /\ tfID' = ""
           ELSE /\ pc' = "FromID"
                /\ ret' = NoRet
                /\ tfID' = idSplit[1]
    /\ cfg' = NoCfg
    /\ imp' = NoImport
    /\ ResetLocals
    /\ UNCHANGED inv
    /\ UNCHANGED <<mm, nas, dns>>

\* resourceVSphereIscsiSoftwareAdapterImport after CheckIfHostnameOrID returned
IscsiImport ==
    /\ pc = "IscsiImport"
    /\ pc' = "done"
    /\ IF ret.err # NoErr
       THEN /\ ret' = [ret EXCEPT !.err = ErrRetrievingHost]
            /\ UNCHANGED <<d, failed, imp>>
       ELSE \E fail \in BOOLEAN :
            IF fail
            THEN /\ ret' = [ret EXCEPT !.err = ErrAPI]
                 /\ failed' = "HostStorageSystem"
                 /\ UNCHANGED <<d, imp>>
            ELSE /\ d' = ImportSet(d, ret.hr, Adapter)
                 /\ imp' = [host |-> ret.host, d |-> d']
                 /\ UNCHANGED <<ret, failed>>
    /\ UNCHANGED <<inv, op, cfg, tfID, tfIDName, dcI, hostJ, counter, host,
                   idRet, fhRet, lookups, sd>>
    /\ UNCHANGED <<mm, nas, dns>>

\* Read of the imported resource: iscsiSoftwareAdapterRead up to FromHostnameOrID
CallIscsiRead ==
    /\ pc = "done"
    /\ op \in {"IscsiImport", "IscsiRead"}
    /\ imp.host # Nil
    /\ op' = "IscsiRead"
    /\ pc' = "FromHostnameOrID"
    /\ ret' = NoRet
    /\ tfID' = ""
    /\ ResetLocals
    /\ UNCHANGED <<inv, cfg, d, imp>>
    /\ UNCHANGED <<mm, nas, dns>>

\* iscsiSoftwareAdapterRead after FromHostnameOrID returned
IscsiRead ==
    /\ pc = "IscsiRead"
    /\ pc' = "done"
    /\ IF ret.err # NoErr
       THEN /\ ret' = [ret EXCEPT !.err = ErrRetrievingHost]
            /\ UNCHANGED <<d, failed>>
       ELSE \E fail \in BOOLEAN, enabled \in BOOLEAN :
            IF fail
            THEN /\ ret' = [ret EXCEPT !.err = ErrAPI]
                 /\ failed' = "HostStorageSystem"
                 /\ UNCHANGED d
            ELSE /\ d' = IF enabled THEN [d EXCEPT !.adapter_id = Adapter] ELSE d
                 /\ UNCHANGED <<ret, failed>>
    /\ UNCHANGED <<inv, op, cfg, tfID, tfIDName, dcI, hostJ, counter, host,
                   idRet, fhRet, lookups, imp, sd>>
    /\ UNCHANGED <<mm, nas, dns>>

-----------------------------------------------------------------------------
(* SystemOrDefault *)

ApiTypes == {"HostAgent", "VirtualCenter", "Other"}

\* switch t: the finder lookup SystemOrDefault makes
SystemOrDefaultLookup_NameFirst(t, name) ==
    IF t \in {"HostAgent", "VirtualCenter"}
    THEN (IF name # "" THEN [fn |-> "HostSystem", arg |-> name]
          ELSE [fn |-> "DefaultHostSystem", arg |-> ""])
    ELSE [fn |-> "none", arg |-> ""]

SystemOrDefaultLookup(t, name) ==
    CASE t = "HostAgent" -> [fn |-> "DefaultHostSystem", arg |-> ""]
      [] t = "VirtualCenter" ->
            IF name # "" THEN [fn |-> "HostSystem", arg |-> name]
            ELSE [fn |-> "DefaultHostSystem", arg |-> ""]
      [] OTHER -> [fn |-> "none", arg |-> ""]

\* One host of a set, or an error when there is none or more than one
TheOne(hs) ==
    IF Cardinality(hs) = 1 THEN [host |-> (CHOOSE h \in hs : TRUE).Self, err |-> NoErr]
    ELSE IF hs = {} THEN [host |-> Nil, err |-> "not found"]
    ELSE [host |-> Nil, err |-> "multiple found"]

\* finder.DefaultHostSystem / finder.HostSystem in datacenter dc
Finder(lk, dc, fail) ==
    LET hs == {inv[dc][j] : j \in 1..Len(inv[dc])} IN
    IF fail THEN [host |-> Nil, err |-> ErrAPI]
    ELSE IF lk.fn = "DefaultHostSystem" THEN TheOne(hs)
    ELSE TheOne({h \in hs : h.Name = lk.arg})

SystemOrDefault ==
    /\ Idle
    /\ op' = "SystemOrDefault"
    /\ pc' = "done"
    /\ \E t \in ApiTypes, name \in Names \cup {""}, dc \in 1..Len(inv), fail \in BOOLEAN :
        LET lk == SystemOrDefaultLookup(t, name) IN
        /\ sd' = [apiType |-> t, name |-> name, dc |-> dc]
        /\ IF lk.fn = "none"
           THEN /\ lookups' = <<>>
                /\ failed' = "none"
                /\ ret' = [NoRet EXCEPT !.err = ErrUnsupportedApiType]
           ELSE /\ lookups' = <<lk>>
                /\ failed' = IF fail THEN lk.fn ELSE "none"
                /\ LET r == Finder(lk, dc, fail) IN
                    ret' = [host |-> r.host, hr |-> ZeroHostReturn, err |-> r.err]
    /\ cfg' = NoCfg
    /\ d' = NoData
    /\ imp' = NoImport
    /\ tfID' = ""
    /\ tfIDName' = ""
    /\ dcI' = 0
    /\ hostJ' = 0
    /\ counter' = 0
    /\ host' = Nil
    /\ idRet' = NoLookup
    /\ fhRet' = NoLookup
    /\ UNCHANGED inv
    /\ UNCHANGED <<mm, nas, dns>>

-----------------------------------------------------------------------------
(* Maintenance mode (HostInMaintenance, EnterMaintenanceMode,              *)
(* ExitMaintenanceMode).  mm holds the hosts' Runtime.InMaintenanceMode,   *)
(* the call in progress and the task it submitted.  task.Wait returns the  *)
(* task's error; the model also lets it return nil for a finished task     *)
(* whose state is not "success", the case the check of to.Info.State is    *)
(* written for.                                                            *)

MaintHosts == {"host-1", "host-2"}

ErrTaskState == "error while changing maintenance mode of host"

NoTask == [kind |-> "none", evacuate |-> FALSE, state |-> "none"]

MmIdle ==
    [inMaint |-> [h \in MaintHosts |-> FALSE], before |-> [h \in MaintHosts |-> FALSE],
     op |-> "none", pc |-> "idle", host |-> Nil, evacuate |-> FALSE,
     task |-> NoTask, submitted |-> 0, failed |-> "none", err |-> NoErr]

\* The state the call is to bring the host to
MaintTarget(o) == o = "EnterMaintenanceMode"

\* if maintMode { return nil } (Enter) / if !maintMode { return nil } (Exit)
MaintBranch_AlwaysSubmit(o, maintMode) == "submit"

MaintBranch(o, maintMode) ==
    IF maintMode = MaintTarget(o) THEN "already" ELSE "submit"

\* if to.Info.State != "success" { return error }
TaskStateBranch_Ignored(state) == "nil"

TaskStateBranch(state) == IF state # "success" THEN "error" ELSE "nil"

\* EnterMaintenanceMode / ExitMaintenanceMode are called; on an endpoint that
\* is not vCenter EnterMaintenanceMode clears evacuate
CallMaintenanceMode ==
    /\ mm.pc \in {"idle", "done"}
    /\ \E o \in {"EnterMaintenanceMode", "ExitMaintenanceMode"}, h \in MaintHosts,
          evacuate \in BOOLEAN, vcenter \in BOOLEAN :
        mm' = [mm EXCEPT !.op = o, !.pc = "HostInMaintenance", !.host = h,
                         !.evacuate = (o = "EnterMaintenanceMode" /\ evacuate /\ vcenter),
                         !.before = mm.inMaint, !.task = NoTask, !.submitted = 0,
                         !.failed = "none", !.err = NoErr]
    /\ UNCHANGED <<resolveVars, nas, dns>>

\* maintMode, err := HostInMaintenance(host) and the early returns
HostInMaintenance ==
    /\ mm.pc = "HostInMaintenance"
    /\ \E fail \in BOOLEAN :
        IF fail
        THEN mm' = [mm EXCEPT !.pc = "done", !.err = ErrAPI, !.failed = "Properties"]
        ELSE IF MaintBranch(mm.op, mm.inMaint[mm.host]) = "already"
        THEN mm' = [mm EXCEPT !.pc = "done", !.err = NoErr]
        ELSE mm' = [mm EXCEPT !.pc = "Submit"]
    /\ UNCHANGED <<resolveVars, nas, dns>>

\* task, err := host.EnterMaintenanceMode(...) / host.ExitMaintenanceMode(...)
SubmitTask ==
    /\ mm.pc = "Submit"
    /\ \E fail \in BOOLEAN :
        IF fail
        THEN mm' = [mm EXCEPT !.pc = "done", !.err = ErrAPI, !.failed = "Submit"]
        ELSE mm' = [mm EXCEPT !.pc = "Wait", !.submitted = mm.submitted + 1,
                              !.task = [kind |-> mm.op, evacuate |-> mm.evacuate,
                                        state |-> "running"]]
    /\ UNCHANGED <<resolveVars, nas, dns>>

\* err = task.Wait(ctx): the host runs the task; a task that succeeds changes
\* the host's maintenance state
WaitTask ==
    /\ mm.pc = "Wait"
    /\ \E outcome \in {"success", "error", "running"}, waitErr \in BOOLEAN :
        /\ outcome = "running" => waitErr
        /\ LET m1 == [mm EXCEPT !.task.state = outcome,
                                !.inMaint[mm.host] =
                                    IF outcome = "success" THEN MaintTarget(mm.op)
                                    ELSE mm.inMaint[mm.host]]
           IN IF waitErr
              THEN mm' = [m1 EXCEPT !.pc = "done", !.err = ErrAPI, !.failed = "Wait"]
              ELSE mm' = [m1 EXCEPT !.pc = "TaskProperties"]
    /\ UNCHANGED <<resolveVars, nas, dns>>

\* err = task.Properties(..., &to) and the check of to.Info.State
TaskProperties ==
    /\ mm.pc = "TaskProperties"
    /\ \E fail \in BOOLEAN :
        IF fail
        THEN mm' = [mm EXCEPT !.pc = "done", !.err = ErrAPI, !.failed = "TaskProperties"]
        ELSE IF TaskStateBranch(mm.task.state) = "error"
        THEN mm' = [mm EXCEPT !.pc = "done", !.err = ErrTaskState]
        ELSE mm' = [mm EXCEPT !.pc = "done", !.err = NoErr]
    /\ UNCHANGED <<resolveVars, nas, dns>>

-----------------------------------------------------------------------------
(* vCenter DNS resource.  dns holds the appliance (the servers it has and   *)
(* the payload format its version accepts), the resource data, the call in *)
(* progress and the update requests the call has sent.                     *)

DnsServers == {"10.0.0.1", "10.0.0.2"}

vsphereVcenterDnsID == "tf-vcenter-dns"

ErrDnsUpdate == "error making update request for dns server config"

ErrDnsRead == "error retrieving dns servers response"

ErrDnsDelete == "error deleting dns server config"

DnsIdle ==
    [appliance |-> {}, format |-> "config", d |-> [id |-> "", servers |-> {}],
     op |-> "none", pc |-> "idle", requests |-> <<>>, err |-> NoErr]

\* The two payloads of vsphereVcenterDNSUpdate
DnsPayload(wrapped, servers) ==
    [wrapped |-> wrapped, mode |-> "is_static", servers |-> servers]

\* viapi.RestUpdateRequest: the appliance takes the payload when it is in the
\* format its version accepts and the request does not fail
DnsAccepted(payload, fail) == ~fail /\ payload.wrapped = (dns.format = "config")

\* if err = RestUpdateRequest(first payload); err != nil { second request }
DnsAfterFirst_AlwaysSecond(ok) == "second"

DnsAfterFirst(ok) == IF ok THEN "return" ELSE "second"

\* resourceVSphereVcenterDNSCreate: d.SetId after a successful update
DnsFinish(m, err) ==
    [m EXCEPT !.pc = "done", !.err = err,
              !.d.id = IF m.op = "Create" /\ err = NoErr THEN vsphereVcenterDnsID
                       ELSE m.d.id]

\* Create / Update are called with the configured servers
CallDnsUpdate ==
    /\ dns.pc \in {"idle", "done"}
    /\ \E servers \in SUBSET DnsServers :
        dns' = [dns EXCEPT !.op = IF dns.d.id = "" THEN "Create" ELSE "Update",
                           !.pc = "FirstRequest", !.d.servers = servers,
                           !.requests = <<>>, !.err = NoErr]
    /\ UNCHANGED <<resolveVars, mm, nas>>

\* Lines 485-495: the "config"-wrapped payload
DnsFirstRequest ==
    /\ dns.pc = "FirstRequest"
    /\ \E fail \in BOOLEAN :
        LET payload == DnsPayload(TRUE, dns.d.servers)
            ok == DnsAccepted(payload, fail)
            m1 == [dns EXCEPT !.requests = Append(dns.requests, [payload |-> payload, ok |-> ok]),
                              !.appliance = IF ok THEN payload.servers ELSE dns.appliance]
        IN dns' = IF DnsAfterFirst(ok) = "return" THEN DnsFinish(m1, NoErr)
                  ELSE [m1 EXCEPT !.pc = "SecondRequest"]
    /\ UNCHANGED <<resolveVars, mm, nas>>

\* Lines 496-506: the flat payload
DnsSecondRequest ==
    /\ dns.pc = "SecondRequest"
    /\ \E fail \in BOOLEAN :
        LET payload == DnsPayload(FALSE, dns.d.servers)
            ok == DnsAccepted(payload, fail)
            m1 == [dns EXCEPT !.requests = Append(dns.requests, [payload |-> payload, ok |-> ok]),
                              !.appliance = IF ok THEN payload.servers ELSE dns.appliance]
        IN dns' = DnsFinish(m1, IF ok THEN NoErr ELSE ErrDnsUpdate)
    /\ UNCHANGED <<resolveVars, mm, nas>>

\* vsphereVcenterDNSRead, from Read and from Import (which sets the ID)
DnsRead ==
    /\ dns.pc \in {"idle", "done"}
    /\ \E fail \in BOOLEAN :
        dns' = IF fail
               THEN [dns EXCEPT !.op = "Read", !.pc = "done", !.requests = <<>>,
                                !.err = ErrDnsRead]
               ELSE [dns EXCEPT !.op = "Read", !.pc = "done", !.requests = <<>>,
                                !.err = NoErr, !.d.servers = dns.appliance,
                                !.d.id = vsphereVcenterDnsID]
    /\ UNCHANGED <<resolveVars, mm, nas>>

\* resourceVSphereVcenterDNSDelete: one "config"-wrapped request with no servers
DnsDelete ==
    /\ dns.pc = "done"
    /\ dns.d.id # ""
    /\ \E fail \in BOOLEAN :
        LET payload == DnsPayload(TRUE, {})
            ok == DnsAccepted(payload, fail)
        IN dns' = [dns EXCEPT !.op = "Delete", !.pc = "done",
                              !.requests = <<[payload |-> payload, ok |-> ok]>>,
                              !.appliance = IF ok THEN {} ELSE dns.appliance,
                              !.err = IF ok THEN NoErr ELSE ErrDnsDelete,
                              !.d.id = IF ok THEN "" ELSE dns.d.id]
    /\ UNCHANGED <<resolveVars, mm, nas>>

-----------------------------------------------------------------------------
(* NAS datastore resource.  nas holds the datastore (its file system type   *)
(* and its host mounts; a NAS datastore exists while a host mounts it), the *)
(* resource data d, the state before the planned change (prior), the data  *)
(* the running handler was entered with (pre), the handler's position, the  *)
(* mount processor's pending operations and the log of what the handler    *)
(* has done.                                                               *)

NasRefs == {"host-1", "host-2"}

\* Name of the host with reference ref
NasNameOf(ref) == IF ref = "host-1" THEN "esx-a" ELSE "esx-b"

NasNames == {NasNameOf(r) : r \in NasRefs}

\* The host an identifier of either flavor stands for
NasHostOf(x) == IF x \in NasRefs THEN x ELSE CHOOSE r \in NasRefs : NasNameOf(r) = x

AccessModes == {"readWrite", "readOnly"}

DatastoreID == "datastore-1"

ErrNotNas == "datastore ID is not a NAS datastore"

ErrInconsistent == "access_mode is inconsistent across configured hosts"

ErrFindDatastore == "cannot find datastore"

ErrUnmounting == "error unmounting hosts"

ErrMounting == "error mounting datastore"

ErrFindingHost == "error finding host for datastore"

NasNoData ==
    [id |-> "", host_system_ids |-> {}, hostnames |-> {}, access_mode |-> "",
     type |-> ""]

NasIdle ==
    [ds |-> [type |-> "NFS", mounts |-> {}], d |-> NasNoData, prior |-> NasNoData,
     pre |-> NasNoData, op |-> "none", prev |-> "none", pc |-> "idle",
     plan |-> {}, todo |-> <<>>, hostTfID |-> "", unmountQ |-> {}, mountQ |-> {},
     log |-> <<>>, err |-> NoErr]

\* Configurations that pass the schema (host_system_ids ExactlyOneOf hostnames)
NasConfigs ==
    {[host_system_ids |-> S, hostnames |-> {}] : S \in (SUBSET NasRefs) \ {{}}}
    \cup {[host_system_ids |-> {}, hostnames |-> T] : T \in (SUBSET NasNames) \ {{}}}

\* The steps of Update before the mount operations, in the handler's order
UpdatePreSteps == <<"rename", "folder", "tags", "attrs">>

\* isNasVolume(t)
IsNasVolume(t) == t \in {"NFS", "NFS41"}

\* All orders in which a set can be listed
Perms(S) == {f \in [1..Cardinality(S) -> S] : \A i, j \in DOMAIN f : f[i] = f[j] => i = j}

\* Lines 356-367: the loop over props.Host
AccessModeLoop_FirstWins(hostMounts, accessMode) ==
    [mode |-> IF hostMounts = <<>> THEN accessMode ELSE Head(hostMounts).mode,
     err |-> NoErr]

RECURSIVE AccessModeLoop(_, _)
AccessModeLoop(hostMounts, accessMode) ==
    IF hostMounts = <<>> THEN [mode |-> accessMode, err |-> NoErr]
    ELSE IF accessMode = ""
         THEN AccessModeLoop(Tail(hostMounts), Head(hostMounts).mode)
    ELSE IF accessMode # Head(hostMounts).mode
         THEN [mode |-> accessMode, err |-> ErrInconsistent]
    ELSE AccessModeLoop(Tail(hostMounts), accessMode)

\* Create, lines 91-95
CreateHostTfID(data) ==
    IF data.host_system_ids # {} THEN "host_system_ids" ELSE "hostnames"

\* Read, lines 172-176
ReadHostTfID_Hostnames(data) == "hostnames"

ReadHostTfID(data) ==
    IF data.host_system_ids # {} THEN "host_system_ids" ELSE "hostnames"

\* Update, lines 267-271
UpdateHostTfID(data) ==
    IF data.host_system_ids # {} THEN "host_system_ids" ELSE "hostnames"

\* Delete, lines 309-313
DeleteHostTfID(data) ==
    IF data.host_system_ids # {} THEN "host_system_ids" ELSE "hostnames"

\* Update, lines 287-289: if err := p.processUnmountOperations(); err != nil { return }
UpdateAfterUnmount_IgnoreError(failure) == "mount"

UpdateAfterUnmount(failure) == IF failure THEN "return" ELSE "mount"

\* The handler returns; a resource without an ID is not in the state
NasReturn(m, err) ==
    [m EXCEPT !.pc = "done", !.err = err, !.todo = <<>>, !.unmountQ = {},
              !.mountQ = {},
              !.d = IF m.d.id = "" THEN NasNoData ELSE m.d]

NasEvent(ev, arg, ok) == [ev |-> ev, arg |-> arg, ok |-> ok]

NasEnter(m, o) ==
    [m EXCEPT !.op = o, !.prev = m.op, !.pre = m.d, !.err = NoErr, !.log = <<>>,
              !.plan = {}, !.todo = <<>>, !.hostTfID = "", !.unmountQ = {},
              !.mountQ = {}]

NasCanEnter == nas.pc \in {"idle", "done"}

\* resourceVSphereNasDatastoreImport
NasImport ==
    /\ NasCanEnter
    /\ nas.d.id = ""
    /\ \E fail \in BOOLEAN, hostMounts \in Perms(nas.ds.mounts) :
        LET m == [NasEnter(nas, "Import") EXCEPT !.d.id = DatastoreID]
            am == AccessModeLoop(hostMounts, "")
        IN nas' =
            IF fail \/ nas.ds.mounts = {}
            THEN NasReturn([m EXCEPT !.d = NasNoData], ErrFindDatastore)
            ELSE IF ~IsNasVolume(nas.ds.type)
            THEN NasReturn([m EXCEPT !.d = NasNoData], ErrNotNas)
            ELSE IF am.err # NoErr
            THEN NasReturn([m EXCEPT !.d = NasNoData], am.err)
            ELSE NasReturn([m EXCEPT !.d.access_mode = am.mode,
                                     !.d.type = nas.ds.type], NoErr)
    /\ UNCHANGED <<resolveVars, mm, dns>>

\* resourceVSphereNasDatastoreCreate up to the mount operations
CallNasCreate ==
    /\ NasCanEnter
    /\ nas.d.id = ""
    /\ nas.ds.mounts = {}
    /\ \E c \in NasConfigs, fail \in BOOLEAN :
        LET data == [NasNoData EXCEPT !.host_system_ids = c.host_system_ids,
                                      !.hostnames = c.hostnames,
                                      !.access_mode = "readWrite", !.type = "NFS"]
            m == [NasEnter(nas, "Create") EXCEPT !.d = data, !.pre = data,
                                                  !.prior = NasNoData]
        IN nas' =
            IF fail THEN NasReturn(m, ErrAPI)
            ELSE [m EXCEPT !.pc = "Mount", !.hostTfID = CreateHostTfID(data),
                           !.mountQ = data[CreateHostTfID(data)]]
    /\ UNCHANGED <<resolveVars, mm, dns>>

\* resourceVSphereNasDatastoreCreate, lines 115-139: folder, tags, attributes
NasCreatePost ==
    /\ nas.pc = "CreatePost"
    /\ \E fail \in BOOLEAN :
        nas' = IF fail THEN NasReturn(nas, ErrAPI) ELSE [nas EXCEPT !.pc = "Read"]
    /\ UNCHANGED <<resolveVars, mm, dns>>

\* resourceVSphereNasDatastoreRead called by Terraform
CallNasRead ==
    /\ NasCanEnter
    /\ nas.d.id # ""
    /\ nas' = [NasEnter(nas, "Read") EXCEPT !.pc = "Read"]
    /\ UNCHANGED <<resolveVars, mm, dns>>

\* resourceVSphereNasDatastoreRead
NasRead ==
    /\ nas.pc = "Read"
    /\ \E fail \in BOOLEAN, lookupFail \in BOOLEAN :
        LET hostTfID == ReadHostTfID(nas.d)
            mounted == {mt.host : mt \in nas.ds.mounts}
            m == [nas EXCEPT !.hostTfID = hostTfID,
                             !.log = Append(nas.log,
                                 NasEvent("read", hostTfID,
                                          ~fail /\ mounted # {}
                                          /\ ~(lookupFail /\ hostTfID = "hostnames")))]
        IN nas' =
            IF fail \/ mounted = {}
            THEN NasReturn(m, ErrFindDatastore)
            ELSE IF hostTfID = "host_system_ids"
            THEN NasReturn([m EXCEPT !.d.host_system_ids = mounted], NoErr)
            ELSE IF lookupFail
            THEN NasReturn(m, ErrFindingHost)
            ELSE NasReturn([m EXCEPT !.d.hostnames = {NasNameOf(r) : r \in mounted}],
                           NoErr)
    /\ UNCHANGED <<resolveVars, mm, dns>>

\* resourceVSphereNasDatastoreUpdate, lines 212-231: the planned data, the
\* tags client, the attribute processor and the datastore lookup
CallNasUpdate ==
    /\ NasCanEnter
    /\ nas.d.id # ""
    /\ \E c \in NasConfigs, fail \in BOOLEAN :
        LET data == [nas.d EXCEPT !.host_system_ids = c.host_system_ids,
                                  !.hostnames = c.hostnames]
            m == [NasEnter(nas, "Update") EXCEPT !.d = data, !.pre = data,
                                                  !.prior = nas.d]
        IN nas' =
            IF fail \/ nas.ds.mounts = {}
            THEN NasReturn(m, ErrFindDatastore)
            ELSE [m EXCEPT !.pc = "UpdatePre", !.todo = UpdatePreSteps]
    /\ UNCHANGED <<resolveVars, mm, dns>>

\* resourceVSphereNasDatastoreUpdate, lines 233-285: rename, folder, tags and
\* attributes, each when it is due (d.HasChange, tagsClient != nil,
\* attrsProcessor != nil); plan collects the steps that were due; then the
\* mount processor is set up
NasUpdatePre ==
    /\ nas.pc = "UpdatePre"
    /\ IF nas.todo # <<>>
       THEN \E due \in BOOLEAN, fail \in BOOLEAN :
            LET m == [nas EXCEPT !.log = Append(nas.log,
                                     NasEvent(Head(nas.todo), "", ~fail)),
                                 !.plan = nas.plan \cup {Head(nas.todo)},
                                 !.todo = Tail(nas.todo)]
            IN nas' = IF ~due THEN [nas EXCEPT !.todo = Tail(nas.todo)]
                      ELSE IF fail THEN NasReturn(m, ErrAPI)
                      ELSE m
       ELSE LET hostTfID == UpdateHostTfID(nas.d)
                o == nas.prior[hostTfID]
                n == nas.d[hostTfID]
            IN nas' = [nas EXCEPT !.pc = "Unmount", !.hostTfID = hostTfID,
                                  !.unmountQ = o \ n, !.mountQ = n \ o]
    /\ UNCHANGED <<resolveVars, mm, dns>>

\* resourceVSphereNasDatastoreDelete up to the unmount operations
CallNasDelete ==
    /\ NasCanEnter
    /\ nas.d.id # ""
    /\ \E fail \in BOOLEAN :
        LET m == NasEnter(nas, "Delete") IN
        nas' = IF fail \/ nas.ds.mounts = {}
               THEN NasReturn(m, ErrFindDatastore)
               ELSE [m EXCEPT !.pc = "Unmount", !.hostTfID = DeleteHostTfID(nas.d),
                              !.unmountQ = nas.d[DeleteHostTfID(nas.d)]]
    /\ UNCHANGED <<resolveVars, mm, dns>>

\* p.processUnmountOperations(): one host at a time; the handler goes on to
\* the mount operations (Update) or returns (Delete) when all are done
NasUnmount ==
    /\ nas.pc = "Unmount"
    /\ IF nas.unmountQ = {}
       THEN nas' = IF nas.op = "Delete"
                   THEN NasReturn([nas EXCEPT !.d = NasNoData], NoErr)
                   ELSE [nas EXCEPT !.pc = "Mount"]
       ELSE \E x \in nas.unmountQ, fail \in BOOLEAN :
            LET m == [nas EXCEPT
                        !.log = Append(nas.log, NasEvent("unmount", x, ~fail)),
                        !.unmountQ = nas.unmountQ \ {x},
                        !.ds.mounts = IF fail THEN nas.ds.mounts
                                      ELSE {mt \in nas.ds.mounts : mt.host # NasHostOf(x)}]
            IN nas' = IF ~fail THEN m
                      ELSE IF nas.op = "Delete" \/ UpdateAfterUnmount(TRUE) = "return"
                      THEN NasReturn(m, ErrUnmounting)
                      ELSE [m EXCEPT !.pc = "Mount", !.unmountQ = {}]
    /\ UNCHANGED <<resolveVars, mm, dns>>

\* p.processMountOperations(): one host at a time; Create sets the ID when a
\* datastore came out of it; then Create goes on to the folder, Update to Read
NasMount ==
    /\ nas.pc = "Mount"
    /\ IF nas.mountQ = {}
       THEN nas' = IF nas.op = "Create"
                   THEN [nas EXCEPT !.pc = "CreatePost",
                                    !.d.id = IF nas.ds.mounts # {} THEN DatastoreID ELSE ""]
                   ELSE [nas EXCEPT !.pc = "Read"]
       ELSE \E x \in nas.mountQ, fail \in BOOLEAN :
            LET mounts == IF fail THEN nas.ds.mounts
                          ELSE {mt \in nas.ds.mounts : mt.host # NasHostOf(x)}
                               \cup {[host |-> NasHostOf(x), mode |-> nas.d.access_mode]}
                m == [nas EXCEPT
                        !.log = Append(nas.log, NasEvent("mount", x, ~fail)),
                        !.mountQ = nas.mountQ \ {x},
                        !.ds = [type |-> nas.d.type, mounts |-> mounts]]
            IN nas' = IF ~fail THEN m
                      ELSE NasReturn(
                             [m EXCEPT !.d.id = IF nas.op = "Create" /\ mounts # {}
                                                THEN DatastoreID ELSE nas.d.id],
                             ErrMounting)
    /\ UNCHANGED <<resolveVars, mm, dns>>

-----------------------------------------------------------------------------
(* Specification *)

\* No call of the host resolution has been made
ResolveIdle ==
    /\ op = "none"
    /\ pc = "idle"
    /\ cfg = NoCfg
    /\ d = NoData
    /\ tfID = ""
    /\ tfIDName = ""
    /\ dcI = 0
    /\ hostJ = 0
    /\ counter = 0
    /\ host = Nil
    /\ idRet = NoLookup
    /\ fhRet = NoLookup
    /\ ret = NoRet
    /\ lookups = <<>>
    /\ failed = "none"
    /\ imp = NoImport
    /\ sd = [apiType |-> "", name |-> "", dc |-> 0]

Init ==
    /\ \E ss \in Layouts : inv = Inventory(ss)
    /\ ResolveIdle
    /\ mm = MmIdle
    /\ nas = NasIdle
    /\ dns = DnsIdle

Next ==
    \/ CallCheckIfHostnameOrID
    \/ CheckID
    \/ CheckHostname
    \/ CallFromHostnameOrID
    \/ FromHostnameOrID
    \/ FromHostnameOrIDReturn
    \/ FromID
    \/ DatacenterList
    \/ CreateContainerView
    \/ RetrieveWithFilter
    \/ CompareHost
    \/ FromHostnameEnd
    \/ CallDataSourceRead
    \/ DataSourceRead
    \/ CallIscsiImport
    \/ IscsiImport
    \/ CallIscsiRead
    \/ IscsiRead
    \/ SystemOrDefault

Spec == Init /\ [][Next]_vars

\* Maintenance mode: the hosts start in any maintenance state
InitMaint ==
    /\ inv = Inventory(<<<<>>>>)
    /\ ResolveIdle
    /\ \E f \in [MaintHosts -> BOOLEAN] : mm = [MmIdle EXCEPT !.inMaint = f, !.before = f]
    /\ nas = NasIdle
    /\ dns = DnsIdle

NextMaint ==
    \/ CallMaintenanceMode
    \/ HostInMaintenance
    \/ SubmitTask
    \/ WaitTask
    \/ TaskProperties

SpecMaint == InitMaint /\ [][NextMaint]_vars

\* vCenter DNS: the appliance accepts one of the two payload formats
InitDns ==
    /\ inv = Inventory(<<<<>>>>)
    /\ ResolveIdle
    /\ mm = MmIdle
    /\ nas = NasIdle
    /\ \E format \in {"config", "flat"}, servers \in SUBSET DnsServers :
        dns = [DnsIdle EXCEPT !.format = format, !.appliance = servers]

NextDns ==
    \/ CallDnsUpdate
    \/ DnsFirstRequest
    \/ DnsSecondRequest
    \/ DnsRead
    \/ DnsDelete

SpecDns == InitDns /\ [][NextDns]_vars

\* NAS datastore: there is no datastore, or one that hosts mount already
InitNas ==
    /\ inv = Inventory(<<<<>>>>)
    /\ ResolveIdle
    /\ mm = MmIdle
    /\ dns = DnsIdle
    /\ \E t \in {"NFS", "VMFS"}, hs \in SUBSET NasRefs :
        \E modes \in [hs -> AccessModes] :
            nas = [NasIdle EXCEPT
                     !.ds = [type |-> t,
                             mounts |-> {[host |-> h, mode |-> modes[h]] : h \in hs}]]

NextNas ==
    \/ NasImport
    \/ CallNasCreate
    \/ NasCreatePost
    \/ CallNasRead
    \/ NasRead
    \/ CallNasUpdate
    \/ NasUpdatePre
    \/ CallNasDelete
    \/ NasUnmount
    \/ NasMount

SpecNas == InitNas /\ [][NextNas]_vars

-----------------------------------------------------------------------------
(* Observation points *)

\* CheckIfHostnameOrID has returned to its caller
CheckReturned ==
    \/ op = "CheckIfHostnameOrID" /\ pc = "done"
    \/ op = "IscsiImport" /\ pc = "IscsiImport"

\* FromHostname has returned to its caller
FromHostnameReturned ==
    \/ pc = "CheckHostname"
    \/ pc = "FromHostnameOrIDReturn" /\ tfIDName = "hostname"

\* FromHostnameOrID has returned to its caller
FromHostnameOrIDReturned ==
    \/ op = "FromHostnameOrID" /\ pc = "done"
    \/ pc \in {"DataSourceRead", "IscsiRead"}

HostnameSearched == \E k \in DOMAIN lookups : lookups[k].fn = "FromHostname"

Refs == {h.Self : h \in AllHosts}

FromHostnameCalls ==
    {"DatacenterList", "CreateContainerView", "RetrieveWithFilter", "ObjectReference"}

-----------------------------------------------------------------------------
(* Claims *)

\* C1: CheckIfHostnameOrID makes the ID lookup first; the hostname search is
\* started only after the ID lookup failed with "managed object not found";
\* when the ID lookup succeeds its host is returned and no hostname search is
\* made, and when it fails with any other error that error is returned
\* unchanged and no hostname search is made.
C1_IDLookupFirst ==
    op \in CheckCallers =>
        /\ lookups # <<>> => lookups[1] = [fn |-> "FromID", arg |-> tfID]
        /\ Len(lookups) <= 2
        /\ HostnameSearched =>
            /\ idRet.err = ErrManagedObjectNotFound
            /\ lookups[2] = [fn |-> "FromHostname", arg |-> tfID]
        /\ (CheckReturned /\ idRet.err = NoErr) =>
            /\ ~HostnameSearched
            /\ ret.err = NoErr
            /\ ret.host = idRet.host
        /\ (CheckReturned /\ idRet.err \notin {NoErr, ErrManagedObjectNotFound}) =>
            /\ ~HostnameSearched
            /\ ret.err = idRet.err
            /\ ret.host = Nil

\* C1 witness: the ID lookup succeeded while a host's name equals the id
C1_Witness ==
    /\ op = "CheckIfHostnameOrID" /\ pc = "done"
    /\ idRet.err = NoErr
    /\ HostsNamed(tfID) # {}
    /\ Len(lookups) = 1

\* C2: when two or more hosts have the name searched for, FromHostname returns
\* no host and an error that is neither nil nor ErrHostnameNotFound.
C2_AmbiguousRejected ==
    (FromHostnameReturned /\ Cardinality(HostsNamed(tfID)) >= 2) =>
        /\ fhRet.host = Nil
        /\ fhRet.err \notin {NoErr, ErrHostnameNotFound}

\* C2 witness: the second match, in another datacenter than the first, is rejected
C2_Witness ==
    /\ FromHostnameReturned
    /\ fhRet.err = ErrAmbiguous
    /\ dcI = 2
    /\ \E j \in 1..Len(inv[1]) : inv[1][j].Name = tfID

\* C3: every API failure during a hostname search is reported to the caller as
\* a returned error other than ErrHostnameNotFound (the caller regains
\* control), and ErrHostnameNotFound is returned only after every datacenter
\* was searched without a failure and no host name matched.
C3_FailuresReturned ==
    /\ failed \in FromHostnameCalls =>
        /\ pc # "exit"
        /\ FromHostnameReturned => fhRet.err \notin {NoErr, ErrHostnameNotFound}
    /\ (FromHostnameReturned /\ fhRet.err = ErrHostnameNotFound) =>
        /\ failed = "none"
        /\ dcI = Len(inv) + 1
        /\ HostsNamed(tfID) = {}

\* C4: a successful CheckIfHostnameOrID returns the flavor that produced the
\* host: host_system_id with the host's reference value after the ID lookup,
\* hostname with the host's name (the supplied id) after the hostname search.
\* A successful FromHostnameOrID returns the attribute it read and its value.
C4_FlavorReturned ==
    /\ (CheckReturned /\ ret.err = NoErr) =>
        IF idRet.err = NoErr
        THEN /\ ret.hr = [IDName |-> "host_system_id", Value |-> ret.host]
             /\ ret.host = tfID
        ELSE /\ ret.hr.IDName = "hostname"
             /\ ret.hr.Value = NameOf(ret.host)
             /\ ret.hr.Value = tfID
    /\ (FromHostnameOrIDReturned /\ ret.err = NoErr) =>
        /\ ret.hr.IDName \in {"host_system_id", "hostname"}
        /\ ret.hr.IDName = Flavor(d)
        /\ ret.hr.Value = d[ret.hr.IDName]
        /\ ret.hr.Value # ""

\* C4 witness: the hostname fallback succeeded for a host whose reference
\* differs from its name
C4_Witness ==
    /\ CheckReturned
    /\ ret.err = NoErr
    /\ ret.hr.IDName = "hostname"
    /\ ret.host # ret.hr.Value

\* C5: after a successful iSCSI import exactly one of host_system_id and
\* hostname is set, every Read of the imported resource resolves the host the
\* import resolved (unless an API call of that Read fails), and Read leaves
\* the flavor attributes and the resource ID as the import set them.
C5_ImportReadReconciled ==
    imp.host # Nil =>
        /\ (d.host_system_id # "") # (d.hostname # "")
        /\ d.id = imp.d.id
        /\ d.host_system_id = imp.d.host_system_id
        /\ d.hostname = imp.d.hostname
        /\ (op = "IscsiRead" /\ FromHostnameOrIDReturned) =>
            /\ ret.err = NoErr => ret.host = imp.host
            /\ ret.err # NoErr => failed # "none"

\* C5 witness: a Read after an import by hostname has finished
C5_Witness ==
    /\ op = "IscsiRead" /\ pc = "done"
    /\ ret.err = NoErr
    /\ d.hostname # ""
    /\ d.adapter_id # ""

\* C6: when no API call fails, FromHostname returns host h exactly when h is
\* the only host of the inventory with that name, and ErrHostnameNotFound
\* exactly when no host has the name; every successful resolution yields one
\* host of the inventory.
C6_UniqueHostResolved ==
    /\ (FromHostnameReturned /\ failed = "none") =>
        /\ fhRet.host # Nil <=> Cardinality(HostsNamed(tfID)) = 1
        /\ fhRet.host # Nil =>
            /\ fhRet.err = NoErr
            /\ HostsNamed(tfID) = {[Self |-> fhRet.host, Name |-> tfID]}
        /\ fhRet.err = ErrHostnameNotFound <=> HostsNamed(tfID) = {}
    /\ ((CheckReturned \/ FromHostnameOrIDReturned) /\ ret.err = NoErr) =>
        ret.host \in Refs

\* C6 witness: the only host with the name is found in the second datacenter
C6_Witness ==
    /\ FromHostnameReturned
    /\ failed = "none"
    /\ fhRet.host # Nil
    /\ Len(inv) >= 2
    /\ \A j \in 1..Len(inv[1]) : inv[1][j].Self # fhRet.host

\* C7: CheckIfHostnameOrID returns ErrHostnameOrIDNotFound exactly when the ID
\* lookup failed with "managed object not found" and the hostname search
\* returned ErrHostnameNotFound; any other error of the hostname search is
\* returned as it is; on every error the host is nil and the HostReturn zero.
C7_NotFoundClassified ==
    CheckReturned =>
        /\ ret.err = ErrHostnameOrIDNotFound <=>
            /\ idRet.err = ErrManagedObjectNotFound
            /\ HostnameSearched
            /\ fhRet.err = ErrHostnameNotFound
        /\ (HostnameSearched /\ fhRet.err \notin {NoErr, ErrHostnameNotFound}) =>
            ret.err = fhRet.err
        /\ ret.err # NoErr =>
            /\ ret.host = Nil
            /\ ret.hr = ZeroHostReturn

\* C7 witness: neither lookup found the identifier
C7_Witness ==
    /\ CheckReturned
    /\ ret.err = ErrHostnameOrIDNotFound

\* C8: after a successful read the data source's id is the identifier it was
\* configured with (the host_system_id value, or the hostname value), the same
\* attribute holds that value and the other attribute is unset.
C8_DataSourceID ==
    (op = "DataSourceRead" /\ pc = "done" /\ ret.err = NoErr) =>
        IF cfg.host_system_id # Null
        THEN /\ d.id = Tok(cfg.host_system_id)
             /\ d.host_system_id = cfg.host_system_id
             /\ d.hostname = ""
        ELSE /\ d.id = Tok(cfg.hostname)
             /\ d.hostname = cfg.hostname
             /\ d.host_system_id = ""

\* C8 witness: a read by hostname has set an id that is not the host's reference
C8_Witness ==
    /\ op = "DataSourceRead" /\ pc = "done"
    /\ ret.err = NoErr
    /\ cfg.hostname # Null
    /\ d.id # Tok(ret.host)

\* C9: a configuration with both host_system_id and hostname, or with neither,
\* is rejected with an error and no lookup is made for it.
C9_ExactlyOneRequired ==
    /\ (op = "DataSourceRead"
        /\ (cfg.host_system_id # Null) = (cfg.hostname # Null)) =>
            /\ pc = "done"
            /\ ret.err # NoErr
            /\ ret.host = Nil
            /\ lookups = <<>>
    /\ (op \in {"DataSourceRead", "FromHostnameOrID"} /\ pc = "done"
        /\ Flavor(d) = "none") =>
            /\ ret.err # NoErr
            /\ ret.host = Nil
            /\ lookups = <<>>

\* C9 witness: a configuration with both attributes has been rejected
C9_Witness ==
    /\ op = "DataSourceRead" /\ pc = "done"
    /\ cfg.host_system_id \notin {Null, ""}
    /\ cfg.hostname \notin {Null, ""}
    /\ ret.err = ErrValidation

\* C10: SystemOrDefault returns the default host system on "HostAgent"
\* whatever the name; on "VirtualCenter" it looks up the named host when the
\* name is not empty and the default host system otherwise; on any other
\* ApiType it makes no lookup and returns nil and "unsupported ApiType".
C10_SystemOrDefault ==
    (op = "SystemOrDefault" /\ pc = "done") =>
        LET dcHosts == {inv[sd.dc][j] : j \in 1..Len(inv[sd.dc])}
            default == <<[fn |-> "DefaultHostSystem", arg |-> ""]>>
        IN
        /\ sd.apiType = "HostAgent" =>
            /\ lookups = default
            /\ ret.host # Nil => dcHosts = {[Self |-> ret.host, Name |-> NameOf(ret.host)]}
        /\ (sd.apiType = "VirtualCenter" /\ sd.name # "") =>
            /\ lookups = <<[fn |-> "HostSystem", arg |-> sd.name]>>
            /\ ret.host # Nil => [Self |-> ret.host, Name |-> sd.name] \in dcHosts
        /\ (sd.apiType = "VirtualCenter" /\ sd.name = "") =>
            lookups = default
        /\ sd.apiType \notin {"HostAgent", "VirtualCenter"} =>
            /\ lookups = <<>>
            /\ ret.host = Nil
            /\ ret.err = ErrUnsupportedApiType

\* C10 witness: on "HostAgent" the default host is returned though a name of
\* another host was given
C10_Witness ==
    /\ op = "SystemOrDefault" /\ pc = "done"
    /\ sd.apiType = "HostAgent"
    /\ sd.name # ""
    /\ ret.host # Nil
    /\ NameOf(ret.host) # sd.name

\* While EnterMaintenanceMode / ExitMaintenanceMode runs
MaintRunning == mm.op # "none"

\* EnterMaintenanceMode / ExitMaintenanceMode has returned
MaintReturned == mm.op # "none" /\ mm.pc = "done"

\* C11: EnterMaintenanceMode on a host in maintenance mode and
\* ExitMaintenanceMode on a host out of it return nil without submitting a
\* task, and the hosts' maintenance states stay as they were; a task is
\* submitted only when the host's state differs from the target state.
C11_Idempotent ==
    /\ (MaintRunning /\ mm.submitted > 0) => mm.before[mm.host] # MaintTarget(mm.op)
    /\ (MaintRunning /\ mm.before[mm.host] = MaintTarget(mm.op)) =>
            /\ mm.submitted = 0
            /\ mm.task = NoTask
            /\ mm.inMaint = mm.before
    /\ (MaintReturned /\ mm.before[mm.host] = MaintTarget(mm.op)
            /\ mm.failed # "Properties") => mm.err = NoErr

C11_Witness ==
    /\ MaintReturned
    /\ mm.op = "EnterMaintenanceMode"
    /\ mm.before[mm.host]
    /\ mm.err = NoErr
    /\ mm.submitted = 0
    /\ mm.inMaint = mm.before

\* C12: the call returns nil only if the host was in the target state at
\* the start or the submitted task finished in state "success"; a failure of
\* any step and a final task state other than "success" give an error; so
\* after a nil return the host is in the target state.
C12_NilOnlyOnSuccess ==
    MaintReturned =>
        /\ mm.err = NoErr =>
                \/ mm.before[mm.host] = MaintTarget(mm.op) /\ mm.submitted = 0
                \/ mm.submitted = 1 /\ mm.task.state = "success"
        /\ mm.failed \in {"Properties", "Submit", "Wait", "TaskProperties"} =>
                mm.err # NoErr
        /\ (mm.submitted = 1 /\ mm.task.state # "success") => mm.err # NoErr
        /\ mm.err = NoErr => mm.inMaint[mm.host] = MaintTarget(mm.op)

C12_Witness ==
    /\ MaintReturned
    /\ mm.op = "ExitMaintenanceMode"
    /\ mm.err = NoErr
    /\ mm.submitted = 1
    /\ mm.task.state = "success"
    /\ mm.before[mm.host]
    /\ ~mm.inMaint[mm.host]

\* C13: FromHostnameOrID makes the ID lookup alone when host_system_id is not
\* empty, even when that lookup fails with "managed object not found"; the
\* hostname search alone when host_system_id is empty and hostname is not;
\* no lookup and an error when both are empty; and a failed lookup gives a
\* nil host with an error.
C13_NoFallback ==
    op = "FromHostnameOrID" =>
        /\ Len(lookups) <= 1
        /\ d.host_system_id # "" =>
                /\ \A k \in DOMAIN lookups :
                       lookups[k] = [fn |-> "FromID", arg |-> d.host_system_id]
                /\ pc = "done" => Len(lookups) = 1
        /\ (d.host_system_id = "" /\ d.hostname # "") =>
                /\ \A k \in DOMAIN lookups :
                       lookups[k] = [fn |-> "FromHostname", arg |-> d.hostname]
                /\ pc = "done" => Len(lookups) = 1
        /\ (d.host_system_id = "" /\ d.hostname = "") =>
                /\ lookups = <<>>
                /\ pc = "done" => ret.err = ErrNoValidID /\ ret.host = Nil
        /\ pc = "done" => (ret.err # NoErr <=> ret.host = Nil)

\* C13 witness: both attributes are set, the ID lookup failed with "managed
\* object not found" and FromHostnameOrID has returned after that one lookup
C13_Witness ==
    /\ op = "FromHostnameOrID" /\ pc = "done"
    /\ d.host_system_id # "" /\ d.hostname # ""
    /\ \E h \in AllHosts : h.Name = d.hostname
    /\ ret.err = ErrManagedObjectNotFound
    /\ ret.host = Nil
    /\ lookups = <<[fn |-> "FromID", arg |-> d.host_system_id]>>

\* vsphereVcenterDNSUpdate is running or has returned
DnsUpdating == dns.op \in {"Create", "Update"}

\* C16: vCenter DNS Create / Update sends the "config"-wrapped payload first
\* and the flat payload only after the first request returned an error; it
\* returns an error exactly when both requests failed; one request is sent
\* when the first succeeds; both carry the configured servers with mode
\* "is_static".
C16_PayloadOrder ==
    DnsUpdating =>
        /\ Len(dns.requests) <= 2
        /\ Len(dns.requests) >= 1 =>
                dns.requests[1].payload =
                    [wrapped |-> TRUE, mode |-> "is_static", servers |-> dns.d.servers]
        /\ Len(dns.requests) = 2 =>
                /\ ~dns.requests[1].ok
                /\ dns.requests[2].payload =
                       [wrapped |-> FALSE, mode |-> "is_static", servers |-> dns.d.servers]
        /\ dns.pc = "done" =>
                /\ Len(dns.requests) >= 1
                /\ dns.requests[1].ok => Len(dns.requests) = 1
                /\ ~dns.requests[1].ok => Len(dns.requests) = 2
                /\ dns.err # NoErr <=>
                       (Len(dns.requests) = 2 /\ ~dns.requests[1].ok /\ ~dns.requests[2].ok)

\* C16 witness: the first request failed, the flat payload was accepted and
\* the operation returned nil
C16_Witness ==
    /\ DnsUpdating /\ dns.pc = "done"
    /\ dns.d.servers # {}
    /\ Len(dns.requests) = 2
    /\ ~dns.requests[1].ok
    /\ dns.requests[2].ok
    /\ dns.err = NoErr
    /\ dns.appliance = dns.d.servers

\* Positions of the events ev in the log of the running NAS handler
NasLogged(ev) == {k \in DOMAIN nas.log : nas.log[k].ev = ev}

\* The hosts the datastore is mounted on
NasMounted == {mt.host : mt \in nas.ds.mounts}

C15_UnmountBeforeMount ==
    nas.op = "Update" =>
        /\ \A i \in NasLogged("unmount"), j \in NasLogged("mount") : i < j
        /\ NasLogged("mount") # {} =>
                {nas.log[i].arg : i \in NasLogged("unmount")} =
                    nas.prior[nas.hostTfID] \ nas.pre[nas.hostTfID]
        /\ (\E i \in NasLogged("unmount") : ~nas.log[i].ok) =>
                /\ NasLogged("mount") = {}
                /\ NasLogged("read") = {}
                /\ nas.pc = "done"
                /\ nas.err # NoErr
        /\ \A k \in NasLogged("unmount") \cup NasLogged("mount") :
                \A st \in nas.plan :
                    \E i \in 1..(k - 1) : nas.log[i] = [ev |-> st, arg |-> "", ok |-> TRUE]

\* C15 witness: an Update with a rename has unmounted a host, mounted
\* another and finished with Read
C15_Witness ==
    /\ nas.op = "Update" /\ nas.pc = "done" /\ nas.err = NoErr
    /\ "rename" \in nas.plan
    /\ \E i \in NasLogged("unmount") : nas.log[i].ok
    /\ \E j \in NasLogged("mount") : nas.log[j].ok
    /\ NasLogged("read") # {}

\* C17: Create, Read, Update and Delete select host_system_ids when it is
\* not empty and hostnames otherwise; a Read that succeeds leaves the hosts
\* the datastore is mounted on in the selected attribute (references for
\* host_system_ids, names for hostnames) and Read never changes the other;
\* at most one of the two attributes is non-empty at any time; after Import
\* followed by Read the mounted hosts are under hostnames.
C17_FlavorConsistent ==
    /\ ~(nas.d.host_system_ids # {} /\ nas.d.hostnames # {})
    /\ nas.hostTfID # "" =>
            nas.hostTfID = IF nas.pre.host_system_ids # {} THEN "host_system_ids"
                           ELSE "hostnames"
    /\ NasLogged("read") # {} =>
            IF nas.pre.host_system_ids # {}
            THEN nas.d.hostnames = nas.pre.hostnames
            ELSE nas.d.host_system_ids = nas.pre.host_system_ids
    /\ (\E k \in NasLogged("read") : nas.log[k].ok) =>
            IF nas.pre.host_system_ids # {}
            THEN nas.d.host_system_ids = NasMounted
            ELSE nas.d.hostnames = {NasNameOf(r) : r \in NasMounted}
    /\ (nas.op = "Read" /\ nas.prev = "Import" /\ nas.pc = "done" /\ nas.err = NoErr) =>
            /\ nas.d.hostnames = {NasNameOf(r) : r \in NasMounted}
            /\ nas.d.host_system_ids = {}

\* C17 witness: a datastore mounted on both hosts was imported and then read
C17_Witness ==
    /\ nas.op = "Read" /\ nas.prev = "Import" /\ nas.pc = "done" /\ nas.err = NoErr
    /\ nas.pre.host_system_ids = {} /\ nas.pre.hostnames = {}
    /\ nas.d.hostnames = NasNames
    /\ nas.d.host_system_ids = {}
    /\ NasMounted = NasRefs

====
